---- MODULE Spec2Model ----
(***************************************************************************)
(* productcatalog/analyze_products.py: the start-up of ModelAdapter, the   *)
(* read loop, and the conversation workflow (a LangGraph StateGraph over   *)
(* RagState, checkpointed under the one thread id "common").               *)
(***************************************************************************)
EXTENDS Integers, Sequences, FiniteSets, TLC

\* ------------------------------------------------------------- bounds
\* Questions read by the loop before the model stops reading.
MaxTurns == 3
\* Values the agent's stream yields before it must end.
MaxAgentSteps == 2

\* ------------------------------------------------------------- values
\* A RagState key that no step has written yet (absent from the thread state).
Unset == "<unset>"
\* What input("> ") may return.
Questions == {"q1", "q2"}
\* Query strings the structured model may return.
Queries == {"sql1", "sql2"}
\* Text the database tool may return.
DbResults == {"rows"}
\* Text a model call may return (response.content).
Contents == {"c1", "c2"}
\* Document lists the similarity search may return.
DocLists == {"docs"}
\* An option the command line does not give.
Absent == "<absent>"
\* What the command line may give after --advanced and after --topk.
AdvancedArgs == {Absent, "True", "False"}
TopkArgs == {Absent, "5"}

\* HumanMessage(content=c), AIMessage(content=c): message objects, not dicts.
HumanMessage(c) == [type |-> "human", content |-> c]
AIMessage(c) == [type |-> "ai", content |-> c]

\* ------------------------------------------------------------- state
VARIABLES
    pc,           \* where the process is: an __init__ step, "input", "running", "failed"
    GOOGLE_API_KEY, \* os.environ.get("GOOGLE_API_KEY") is truthy
    argv,         \* the option values on the command line
    ARGS,         \* the parsed command line
    network,      \* network-reaching operations started so far
    error,        \* the exception that ended the process ("" while none)
    state,        \* the thread's RagState (the checkpointed channels)
    pending,      \* nodes of the current superstep still to run
    triggered,    \* nodes the current superstep scheduled for the next one
    agentSteps,   \* values the agent's stream has yielded in _search_db
    response,     \* the local "response" of _search_db's loop
    printed,      \* what print(response['answer']) wrote last
    turn,         \* questions read so far
    ran,          \* nodes invoked in the current turn, in order
    written,      \* RagState keys the nodes of the current turn have written
    histories,    \* history texts built for prompts in the current turn
    calls,        \* model, database and search calls made in the current turn
    atStart,      \* the thread state as checkpointed when the turn began
    atMerge,      \* the message list as _merge_smart found it (empty before)
    mergeOut,     \* response.content of _merge_smart in the current turn
    prevMessages  \* the message list at the end of the previous turn (empty before)

vars == <<pc, GOOGLE_API_KEY, argv, ARGS, network, error, state, pending, triggered,
          agentSteps, response, printed, turn, ran, written, histories,
          calls, atStart, atMerge, mergeOut, prevMessages>>

boot == <<GOOGLE_API_KEY, argv, ARGS>>
ghost == <<ran, written, histories, calls, atStart, atMerge, mergeOut, prevMessages>>
loopVars == <<state, pending, triggered, agentSteps, response, printed, turn>>

\* RagState: every key absent until written.
RagState == [question |-> Unset, db_query |-> Unset, db_result |-> Unset,
             db_response |-> Unset, context |-> Unset, rag_response |-> Unset,
             config |-> Unset, answer |-> Unset, messages |-> Unset]

\* argparse's type=bool: bool(s) of the option's string, true unless s is "".
type_bool(s) == s # ""

\* str() of a Python bool, as a prompt template renders it.
PyStr(b) == IF b THEN "True" ELSE "False"

\* PARSER.parse_args(): an option not given takes its default as it is, an
\* option given goes through its type. topk is held as the text it renders to.
parse_args(av) ==
    [advanced |-> IF av.advanced = Absent THEN FALSE ELSE type_bool(av.advanced),
     topk |-> IF av.topk = Absent THEN "10" ELSE PyStr(type_bool(av.topk))]

Init ==
    /\ pc = "_init_db"
    /\ GOOGLE_API_KEY \in BOOLEAN
    /\ argv \in [advanced : AdvancedArgs, topk : TopkArgs]
    /\ ARGS = parse_args(argv)
    /\ network = {}
    /\ error = ""
    /\ state = RagState
    /\ pending = {}
    /\ triggered = {}
    /\ agentSteps = 0
    /\ response = Unset
    /\ printed = Unset
    /\ turn = 0
    /\ ran = <<>>
    /\ written = {}
    /\ histories = <<>>
    /\ calls = <<>>
    /\ atStart = RagState
    /\ atMerge = <<>>
    /\ mergeOut = Unset
    /\ prevMessages = <<>>

\* Mutant: the read loop catches what a turn raises and reads on.
Propagate_caught(e) ==
    /\ pc' = IF pc = "running" THEN "input" ELSE "failed"
    /\ error' = e

\* An exception nothing catches: it leaves __init__ or the read loop and ends
\* the process.
Propagate(e) ==
    /\ pc' = "failed"
    /\ error' = e

\* ------------------------------------------------------------- start-up
InitStep(next) ==
    /\ pc' = next
    /\ UNCHANGED <<error, boot, loopVars, ghost>>

InitFail(e) ==
    /\ Propagate(e)
    /\ UNCHANGED <<boot, loopVars, ghost>>

\* SQLDatabase.from_uri: connects to the database.
_init_db ==
    /\ pc = "_init_db"
    /\ network' = network \cup {"db_connect"}
    /\ \/ InitStep("_init_vector_store")
       \/ InitFail("db")

\* The embeddings client and the empty store: the constructor may reject a
\* missing credential itself.
_init_vector_store ==
    /\ pc = "_init_vector_store"
    /\ UNCHANGED network
    /\ \/ InitStep("_load_documents")
       \/ /\ ~GOOGLE_API_KEY
          /\ InitFail("embeddings")

\* Reads and splits the local feedback file.
_load_documents ==
    /\ pc = "_load_documents"
    /\ UNCHANGED network
    /\ \/ InitStep("_index_documents")
       \/ InitFail("file")

\* add_documents embeds every chunk; hub.pull fetches the RAG prompt.
_index_documents ==
    /\ pc = "_index_documents"
    /\ \/ /\ network' = network \cup {"embed_documents", "hub_pull"}
          /\ InitStep("_init_llm")
       \/ /\ network' = network \cup {"embed_documents"}
          /\ InitFail("embeddings")
       \/ /\ network' = network \cup {"embed_documents", "hub_pull"}
          /\ InitFail("hub")

_init_llm ==
    /\ pc = "_init_llm"
    /\ UNCHANGED network
    /\ IF ~GOOGLE_API_KEY
         THEN InitFail("API key missing for Google Gemini")
         ELSE InitStep("_init_prompt_config")

_init_prompt_config ==
    /\ pc = "_init_prompt_config"
    /\ UNCHANGED network
    /\ InitStep("_init_agent")

_init_agent ==
    /\ pc = "_init_agent"
    /\ UNCHANGED network
    /\ InitStep("_build_rag_workflow")

\* ------------------------------------------------------------- the graph
\* Mutant: the second sequence lists _build_answer before _execute_query.
Edges_answer_first ==
    {<<"_retrive_docs", "_generate_from_context">>,
     <<"_generate_from_context", "_merge_smart">>,
     <<"_build_query", "_build_answer">>,
     <<"_build_answer", "_execute_query">>,
     <<"_search_db", "_retrive_docs">>,
     <<"_execute_query", "_retrive_docs">>}

\* Mutant: the edge into _retrive_docs leaves _build_query and _search_db's
\* edge is kept, so retrieval starts beside _execute_query.
Edges_retrieve_early ==
    {<<"_retrive_docs", "_generate_from_context">>,
     <<"_generate_from_context", "_merge_smart">>,
     <<"_build_query", "_execute_query">>,
     <<"_execute_query", "_build_answer">>,
     <<"_search_db", "_retrive_docs">>,
     <<"_build_query", "_retrive_docs">>}

\* Mutant: the first sequence leaves _generate_from_context out.
Edges_skip_generate ==
    {<<"_retrive_docs", "_merge_smart">>,
     <<"_build_query", "_execute_query">>,
     <<"_execute_query", "_build_answer">>,
     <<"_search_db", "_retrive_docs">>,
     <<"_build_answer", "_retrive_docs">>}

\* Mutant: one more edge into _retrive_docs, from _build_query.
Edges_double_retrieve ==
    {<<"_retrive_docs", "_generate_from_context">>,
     <<"_generate_from_context", "_merge_smart">>,
     <<"_build_query", "_execute_query">>,
     <<"_execute_query", "_build_answer">>,
     <<"_search_db", "_retrive_docs">>,
     <<"_build_answer", "_retrive_docs">>,
     <<"_build_query", "_retrive_docs">>}

\* Mutant: the edge from _build_answer to _retrive_docs is missing.
Edges_no_join ==
    {<<"_retrive_docs", "_generate_from_context">>,
     <<"_generate_from_context", "_merge_smart">>,
     <<"_build_query", "_execute_query">>,
     <<"_execute_query", "_build_answer">>,
     <<"_search_db", "_retrive_docs">>}

\* add_sequence twice, add_node, two add_edge: the edges between nodes.
Edges == {<<"_retrive_docs", "_generate_from_context">>,
          <<"_generate_from_context", "_merge_smart">>,
          <<"_build_query", "_execute_query">>,
          <<"_execute_query", "_build_answer">>,
          <<"_search_db", "_retrive_docs">>,
          <<"_build_answer", "_retrive_docs">>}

Succ(n) == {m \in {e[2] : e \in Edges} : <<n, m>> \in Edges}

\* Mutant: the two targets of the path map are exchanged.
StartBranch_swapped(st) ==
    IF st.config.advanced THEN {"_build_query"} ELSE {"_search_db"}

\* Mutant: START has plain edges to both branches.
StartBranch_both(st) == {"_search_db", "_build_query"}

\* add_conditional_edges(START, lambda x: x["config"]["advanced"], ...).
StartBranch(st) ==
    IF st.config.advanced THEN {"_search_db"} ELSE {"_build_query"}

\* MemorySaver, the thread id "common", compile: no call leaves the process.
_build_rag_workflow ==
    /\ pc = "_build_rag_workflow"
    /\ UNCHANGED network
    /\ InitStep("input")

\* ------------------------------------------------------------- history text
IsDict(msg) == "role" \in DOMAIN msg

Capitalize(role) ==
    CASE role = "user" -> "User"
      [] role = "assistant" -> "Assistant"
      [] OTHER -> "Unknown"

\* The text built from messages[:-1], one <<Role, content>> line per message.
\* A message object has no get(): the first lookup raises AttributeError.
_build_message_history(st) ==
    LET messages == IF st.messages = Unset THEN <<>> ELSE st.messages
        earlier == SubSeq(messages, 1, Len(messages) - 1)
    IN  IF \E i \in 1..Len(earlier) : ~IsDict(earlier[i])
          THEN [raised |-> TRUE, text |-> <<>>]
          ELSE [raised |-> FALSE,
                text |-> [i \in 1..Len(earlier) |->
                            <<Capitalize(earlier[i].role), earlier[i].content>>]]

\* ------------------------------------------------------------- a turn
\* Mutant: the new question is added to the list the checkpoint holds.
InputMessages_accumulated(st, question) ==
    (IF st.messages = Unset THEN <<>> ELSE st.messages) \o <<HumanMessage(question)>>

\* state["messages"] = [HumanMessage(content=question)].
InputMessages(st, question) == <<HumanMessage(question)>>

\* The read loop's input() and adapter.invoke up to the branch at START: the
\* input's three keys overwrite their channels, every other key keeps what the
\* checkpoint of thread "common" holds.
invoke ==
    /\ pc = "input"
    /\ turn < MaxTurns
    /\ \E question \in Questions :
         /\ state' = [state EXCEPT
                        !.question = question,
                        !.config = [top_k |-> ARGS.topk, advanced |-> ARGS.advanced],
                        !.messages = InputMessages(state, question)]
         /\ pending' = StartBranch(state')
    /\ triggered' = {}
    /\ pc' = "running"
    /\ turn' = turn + 1
    /\ ran' = <<>>
    /\ written' = {}
    /\ histories' = <<>>
    /\ calls' = <<>>
    /\ atStart' = state
    /\ atMerge' = <<>>
    /\ mergeOut' = Unset
    /\ prevMessages' = IF turn = 0 THEN <<>> ELSE state.messages
    /\ UNCHANGED <<boot, network, error, agentSteps, response, printed>>

\* The superstep bookkeeping when node n returns: its successors run in the
\* next superstep, which starts once every node of this one has returned.
Schedule(n) ==
    LET rest == pending \ {n}
        next == triggered \cup Succ(n)
    IN  IF rest = {}
          THEN pending' = next /\ triggered' = {}
          ELSE pending' = rest /\ triggered' = next

\* The keys present in st: what "return state" writes back. The input of the
\* turn always carries question, config and messages.
Keys(st) ==
    {"question", "config", "messages"} \cup
    {k \in {"db_query", "db_result", "db_response", "context", "rag_response",
            "answer"} : st[k] # Unset}

\* Node n returns an update of the keys in keys, which leaves the state st.
Returns(n, st, keys) ==
    /\ state' = st
    /\ ran' = Append(ran, n)
    /\ written' = written \cup keys
    /\ Schedule(n)
    /\ UNCHANGED <<pc, error, boot, network, printed, turn, atStart, prevMessages>>

\* Node n raises: the exception leaves rag_graph.invoke, invoke and the loop.
Raises(n, e) ==
    /\ Propagate(e)
    /\ ran' = Append(ran, n)
    /\ UNCHANGED <<boot, network, loopVars, written, histories, atStart,
                   atMerge, mergeOut, prevMessages>>

Enabled(n) == pc = "running" /\ n \in pending

\* The record of one call a node makes: what it was given and what it returned
\* (Unset when it raised).
Call(n, kind, input, history, output) ==
    [step |-> n, kind |-> kind, input |-> input, history |-> history,
     output |-> output]

Called(n, kind, input, history, output) ==
    calls' = Append(calls, Call(n, kind, input, history, output))

\* Mutant: a query already in the thread state is kept.
QueryUpdate_kept(st, query) ==
    IF st.db_query = Unset THEN [st EXCEPT !.db_query = query] ELSE st

\* The update _build_query returns.
QueryUpdate(st, query) == [st EXCEPT !.db_query = query]

_build_query ==
    /\ Enabled("_build_query")
    /\ UNCHANGED <<agentSteps, response, atMerge, mergeOut>>
    /\ IF state.config.advanced
         THEN Returns("_build_query", state, Keys(state))
              /\ UNCHANGED <<histories, calls>>
         ELSE LET h == _build_message_history(state) IN
              IF h.raised
                THEN Raises("_build_query", "AttributeError") /\ UNCHANGED calls
                ELSE \/ \E query \in Queries :
                          /\ Returns("_build_query", QueryUpdate(state, query),
                                     {"db_query"})
                          /\ histories' = Append(histories,
                                 [step |-> "_build_query", text |-> h.text])
                          /\ Called("_build_query", "model", state.question,
                                    h.text, query)
                     \/ /\ Raises("_build_query", "model")
                        /\ Called("_build_query", "model", state.question,
                                  h.text, Unset)

_execute_query ==
    /\ Enabled("_execute_query")
    /\ UNCHANGED <<agentSteps, response, atMerge, mergeOut, histories>>
    /\ IF state.config.advanced
         THEN Returns("_execute_query", state, Keys(state)) /\ UNCHANGED calls
         ELSE IF state.db_query = Unset
                THEN Raises("_execute_query", "KeyError") /\ UNCHANGED calls
                ELSE \/ \E db_result \in DbResults :
                          /\ Returns("_execute_query",
                                  [state EXCEPT !.db_result = db_result], {"db_result"})
                          /\ Called("_execute_query", "db", state.db_query,
                                    <<>>, db_result)
                     \/ /\ Raises("_execute_query", "db")
                        /\ Called("_execute_query", "db", state.db_query,
                                  <<>>, Unset)

\* Mutant: _build_answer without its check of config.advanced.
_build_answer_unguarded ==
    /\ Enabled("_build_answer")
    /\ UNCHANGED <<agentSteps, response, atMerge, mergeOut, histories>>
    /\ IF state.db_query = Unset \/ state.db_result = Unset
         THEN Raises("_build_answer", "KeyError") /\ UNCHANGED calls
         ELSE \/ \E content \in Contents :
                   /\ Returns("_build_answer",
                           [state EXCEPT !.db_response = content], {"db_response"})
                   /\ Called("_build_answer", "model", state.question,
                             <<>>, content)
              \/ /\ Raises("_build_answer", "model")
                 /\ Called("_build_answer", "model", state.question,
                           <<>>, Unset)

_build_answer ==
    /\ Enabled("_build_answer")
    /\ UNCHANGED <<agentSteps, response, atMerge, mergeOut, histories>>
    /\ IF state.config.advanced
         THEN Returns("_build_answer", state, Keys(state)) /\ UNCHANGED calls
         ELSE IF state.db_query = Unset \/ state.db_result = Unset
                THEN Raises("_build_answer", "KeyError") /\ UNCHANGED calls
                ELSE \/ \E content \in Contents :
                          /\ Returns("_build_answer",
                                  [state EXCEPT !.db_response = content], {"db_response"})
                          /\ Called("_build_answer", "model", state.question,
                                    <<>>, content)
                     \/ /\ Raises("_build_answer", "model")
                        /\ Called("_build_answer", "model", state.question,
                                  <<>>, Unset)

\* One value of self.agent.stream(...): response = step["messages"][-1]. The
\* first value is the input itself, whose last message is the question.
agent_stream ==
    /\ Enabled("_search_db")
    /\ agentSteps < MaxAgentSteps
    /\ \/ /\ agentSteps' = agentSteps + 1
          /\ IF agentSteps = 0
               THEN response' = state.question
               ELSE response' \in Contents
          /\ UNCHANGED <<pc, error, boot, network, state, pending, triggered,
                         printed, turn, ghost>>
       \/ Raises("_search_db", "agent") /\ UNCHANGED calls

\* The stream has ended: db_response = response.content.
_search_db ==
    /\ Enabled("_search_db")
    /\ agentSteps >= 1
    /\ Returns("_search_db", [state EXCEPT !.db_response = response], {"db_response"})
    /\ agentSteps' = 0
    /\ response' = Unset
    /\ UNCHANGED <<atMerge, mergeOut, histories, calls>>

\* _build_search_query_with_context (a model call on the history text), then
\* the similarity search.
_retrive_docs ==
    /\ Enabled("_retrive_docs")
    /\ UNCHANGED <<agentSteps, response, atMerge, mergeOut>>
    /\ LET h == _build_message_history(state) IN
       IF h.raised
         THEN Raises("_retrive_docs", "AttributeError") /\ UNCHANGED calls
         ELSE \/ \E retrieved_docs \in DocLists :
                   /\ Returns("_retrive_docs",
                           [state EXCEPT !.context = retrieved_docs], {"context"})
                   /\ histories' = Append(histories,
                          [step |-> "_retrive_docs", text |-> h.text])
                   /\ Called("_retrive_docs", "model", Unset, h.text,
                             retrieved_docs)
              \/ /\ Raises("_retrive_docs", "model")
                 /\ Called("_retrive_docs", "model", Unset, h.text, Unset)

_generate_from_context ==
    /\ Enabled("_generate_from_context")
    /\ UNCHANGED <<agentSteps, response, atMerge, mergeOut, histories>>
    /\ IF state.context = Unset
         THEN Raises("_generate_from_context", "KeyError") /\ UNCHANGED calls
         ELSE \/ \E content \in Contents :
                   /\ Returns("_generate_from_context",
                           [state EXCEPT !.rag_response = content], {"rag_response"})
                   /\ Called("_generate_from_context", "model", state.question,
                             <<>>, content)
              \/ /\ Raises("_generate_from_context", "model")
                 /\ Called("_generate_from_context", "model", state.question,
                           <<>>, Unset)

\* Mutant: the append is lost (made on a copy of the list).
Appended_lost(messages, content) == messages

\* What state['messages'].append(AIMessage(content=...)) leaves in the list.
Appended(messages, content) == Append(messages, AIMessage(content))

\* Mutant: the update carries the database answer, not the merged one.
MergeUpdate_db_response(st, content) == [st EXCEPT !.answer = st.db_response]

\* The update _merge_smart returns.
MergeUpdate(st, content) == [st EXCEPT !.answer = content]

_merge_smart ==
    /\ Enabled("_merge_smart")
    /\ UNCHANGED <<agentSteps, response>>
    /\ LET h == _build_message_history(state) IN
       IF h.raised
         THEN Raises("_merge_smart", "AttributeError") /\ UNCHANGED calls
         ELSE IF state.db_response = Unset \/ state.rag_response = Unset
                THEN Raises("_merge_smart", "KeyError") /\ UNCHANGED calls
                ELSE \/ \E content \in Contents :
                          /\ Returns("_merge_smart",
                                 MergeUpdate([state EXCEPT
                                     !.messages = Appended(state.messages, content)],
                                     content), {"answer"})
                          /\ histories' = Append(histories,
                                 [step |-> "_merge_smart", text |-> h.text])
                          /\ atMerge' = state.messages
                          /\ mergeOut' = content
                          /\ Called("_merge_smart", "model", state.question,
                                    h.text, content)
                     \/ /\ Raises("_merge_smart", "model")
                        /\ Called("_merge_smart", "model", state.question,
                                  h.text, Unset)

\* rag_graph.invoke returns the thread state once no node is left to run, and
\* the loop prints its answer and reads the next question.
Return ==
    /\ pc = "running"
    /\ pending = {}
    /\ IF state.answer = Unset
         THEN /\ Propagate("KeyError")
              /\ UNCHANGED printed
         ELSE /\ printed' = state.answer
              /\ pc' = "input"
              /\ UNCHANGED error
    /\ UNCHANGED <<boot, network, state, pending, triggered, agentSteps,
                   response, turn, ghost>>

Next ==
    \/ _init_db
    \/ _init_vector_store
    \/ _load_documents
    \/ _index_documents
    \/ _init_llm
    \/ _init_prompt_config
    \/ _init_agent
    \/ _build_rag_workflow
    \/ invoke
    \/ _build_query
    \/ _execute_query
    \/ _build_answer
    \/ agent_stream
    \/ _search_db
    \/ _retrive_docs
    \/ _generate_from_context
    \/ _merge_smart
    \/ Return

Spec == Init /\ [][Next]_vars

\* The steps of a turn. Every call in them is synchronous, so a turn that has
\* begun goes on until it returns or raises; only input() may wait for ever.
Turn ==
    \/ _build_query
    \/ _execute_query
    \/ _build_answer
    \/ agent_stream
    \/ _search_db
    \/ _retrive_docs
    \/ _generate_from_context
    \/ _merge_smart
    \/ Return

FairSpec == Spec /\ WF_vars(Turn)

\* The three simple-path step functions applied to a state of either mode:
\* any question, any of the keys they read present or absent.
StepInputs ==
    {[RagState EXCEPT !.question = q, !.db_query = dq, !.db_result = dr,
                      !.db_response = dp,
                      !.config = [top_k |-> "10", advanced |-> a],
                      !.messages = <<HumanMessage(q)>>] :
        q \in Questions, dq \in Queries \cup {Unset},
        dr \in DbResults \cup {Unset}, dp \in Contents \cup {Unset},
        a \in BOOLEAN}

InitSteps ==
    /\ pc = "running"
    /\ GOOGLE_API_KEY = TRUE
    /\ state \in StepInputs
    /\ argv = [advanced |-> IF state.config.advanced THEN "True" ELSE Absent,
               topk |-> Absent]
    /\ ARGS = parse_args(argv)
    /\ network = {"db_connect", "embed_documents", "hub_pull"}
    /\ error = ""
    /\ pending \in {{"_build_query"}, {"_execute_query"}, {"_build_answer"}}
    /\ triggered = {}
    /\ agentSteps = 0
    /\ response = Unset
    /\ printed = Unset
    /\ turn = 1
    /\ ran = <<>>
    /\ written = {}
    /\ histories = <<>>
    /\ calls = <<>>
    /\ atStart = state
    /\ atMerge = <<>>
    /\ mergeOut = Unset
    /\ prevMessages = <<>>

NextSteps ==
    \/ _build_query
    \/ _execute_query
    \/ _build_answer

SpecSteps == InitSteps /\ [][NextSteps]_vars

\* ------------------------------------------------------------- properties
Range(seq) == {seq[i] : i \in DOMAIN seq}

\* The places of node n in ran.
At(n) == {i \in DOMAIN ran : ran[i] = n}

\* Every invocation of a precedes every invocation of b, and b was invoked
\* only if a was.
Before(a, b) ==
    /\ At(b) # {} => At(a) # {}
    /\ \A i \in At(a), j \in At(b) : i < j

SqlSteps == {"_build_query", "_execute_query", "_build_answer"}

\* A turn has begun and its configuration is in the state.
InTurn == turn >= 1 /\ pc \in {"running", "input", "failed"}

\* The turn has run to its end and its answer was printed.
TurnDone == turn >= 1 /\ pc = "input"

\* C1: in a turn with config.advanced = false, _build_query is invoked before
\* _execute_query and _execute_query before _build_answer, each at most once,
\* and a turn that ends has invoked all three.
C1_SqlStepsInOrder ==
    (InTurn /\ ~state.config.advanced) =>
        /\ Before("_build_query", "_execute_query")
        /\ Before("_execute_query", "_build_answer")
        /\ \A n \in SqlSteps : Cardinality(At(n)) <= 1
        /\ pc = "input" => SqlSteps \subseteq Range(ran)

C1_Witness ==
    /\ TurnDone
    /\ turn = 2
    /\ ~state.config.advanced
    /\ SubSeq(ran, 1, 3) = <<"_build_query", "_execute_query", "_build_answer">>

\* C2: in a turn with config.advanced = true, no SQL step is invoked or
\* scheduled, no node writes db_query or db_result, and both keys hold what the
\* thread state held when the turn began (nothing, on a fresh thread).
C2_AdvancedSkipsSql ==
    (InTurn /\ state.config.advanced) =>
        /\ SqlSteps \cap (Range(ran) \cup pending \cup triggered) = {}
        /\ {"db_query", "db_result"} \cap written = {}
        /\ state.db_query = atStart.db_query
        /\ state.db_result = atStart.db_result
        /\ turn = 1 => state.db_query = Unset /\ state.db_result = Unset

C2_Witness ==
    /\ TurnDone
    /\ turn = 2
    /\ state.config.advanced
    /\ ran[1] = "_search_db"
    /\ state.db_query = Unset

\* The last step of the branch the configuration selects.
BranchEnd == IF state.config.advanced THEN "_search_db" ELSE "_build_answer"

\* C3: _retrive_docs is scheduled or invoked only once the last step of the
\* taken branch has returned and db_response was written in this turn, and
\* while it is scheduled no other node is.
C3_RetrievalAfterBranch ==
    InTurn =>
        /\ "_retrive_docs" \in pending \cup triggered =>
              /\ pending = {"_retrive_docs"}
              /\ triggered = {}
              /\ BranchEnd \in Range(ran)
              /\ "db_response" \in written
              /\ state.db_response # Unset
        /\ "_retrive_docs" \in Range(ran) =>
              /\ Before(BranchEnd, "_retrive_docs")
              /\ "db_response" \in written
        /\ \A n \in SqlSteps \cup {"_search_db"} :
              \A i \in At(n), j \in At("_retrive_docs") : i < j

C3_Witness ==
    /\ pc = "running"
    /\ pending = {"_retrive_docs"}
    /\ ran = <<"_build_query", "_execute_query", "_build_answer">>
    /\ "db_response" \in written

\* C9: the first node of every turn is _search_db when config.advanced is
\* true and _build_query when it is false, and no node of the other branch is
\* ever scheduled or invoked in that turn.
C9_ExactlyOneBranch ==
    InTurn =>
        LET taken == IF state.config.advanced THEN {"_search_db"} ELSE SqlSteps
            other == IF state.config.advanced THEN SqlSteps ELSE {"_search_db"}
            first == IF state.config.advanced THEN "_search_db" ELSE "_build_query"
        IN  /\ other \cap (Range(ran) \cup pending \cup triggered) = {}
            /\ ran = <<>> => pending = {first}
            /\ ran # <<>> => ran[1] = first
            /\ pc = "input" => taken \subseteq Range(ran)

\* new is old followed by at least one more message.
IsProperExtension(old, new) ==
    /\ Len(new) > Len(old)
    /\ SubSeq(new, 1, Len(old)) = old

\* C4: the message history after a turn is a proper extension of the message
\* history after the turn before it.
C4_HistoryGrows ==
    (TurnDone /\ turn >= 2) => IsProperExtension(prevMessages, state.messages)

\* C5: every history text built for a prompt of a later turn holds a line for
\* each message (the question, the answer) the turn before it left.
C5_EarlierTurnInPrompts ==
    (InTurn /\ turn >= 2) =>
        \A i \in DOMAIN histories :
            \A j \in DOMAIN prevMessages :
                \E k \in DOMAIN histories[i].text :
                    histories[i].text[k][2] = prevMessages[j].content

\* C6: in a turn that ends, _merge_smart ran once and left the message list
\* it found with exactly one more entry, an assistant message whose content is
\* the turn's answer.
C6_MergeAppendsOnce ==
    TurnDone =>
        /\ Cardinality(At("_merge_smart")) = 1
        /\ Len(state.messages) = Len(atMerge) + 1
        /\ SubSeq(state.messages, 1, Len(atMerge)) = atMerge
        /\ state.messages[Len(state.messages)] =
               [type |-> "ai", content |-> state.answer]
        /\ state.answer = printed

C6_Witness ==
    /\ TurnDone
    /\ turn = 2
    /\ Len(atMerge) = 1
    /\ state.messages[2].type = "ai"
    /\ state.messages[2].content = printed

\* C7: when the missing credential is reported, no network-reaching step
\* (the database connection, the embedding of the chunks, the pull of the RAG
\* prompt) has been started; and start-up never completes without the
\* credential.
C7_FailsBeforeNetwork ==
    /\ error = "API key missing for Google Gemini" => network = {}
    /\ ~GOOGLE_API_KEY => pc \notin {"input", "running"}

C10_PrintsThisTurnsMerge ==
    /\ TurnDone =>
          /\ mergeOut # Unset
          /\ printed = mergeOut
          /\ pending = {} /\ triggered = {}
    /\ (pc = "running" /\ ran = <<>>) =>
          pending \in {{"_search_db"}, {"_build_query"}}

C10_Witness ==
    /\ TurnDone
    /\ turn = 2
    /\ atStart.answer # Unset
    /\ printed # atStart.answer
    /\ printed = mergeOut

\* The places in calls of the calls node n made.
CallsOf(n) == {i \in DOMAIN calls : calls[i].step = n}

\* C11: in a turn with config.advanced = false, _build_query calls the model
\* with the turn's question (and an empty history on the first turn), and the
\* query _execute_query runs is the one that call returned in this turn.
C11_RunsThisTurnsQuery ==
    (InTurn /\ ~state.config.advanced) =>
        /\ \A i \in CallsOf("_build_query") :
              /\ calls[i].input = state.question
              /\ turn = 1 => calls[i].history = <<>>
        /\ ("_execute_query" \in Range(ran)) => CallsOf("_execute_query") # {}
        /\ \A j \in CallsOf("_execute_query") :
              \E i \in CallsOf("_build_query") :
                  /\ i < j
                  /\ calls[i].output # Unset
                  /\ calls[j].input = calls[i].output

C11_Witness ==
    /\ TurnDone
    /\ turn = 2
    /\ ~state.config.advanced
    /\ atStart.db_query # Unset
    /\ \E j \in CallsOf("_execute_query") :
          /\ calls[j].input = state.db_query
          /\ calls[j].input # atStart.db_query

\* C12: in the first turn the conversation text given to the product-name
\* extraction call holds a line with the turn's question.
C12_QuestionInExtractionText ==
    (InTurn /\ turn = 1) =>
        \A i \in CallsOf("_retrive_docs") :
            \E k \in DOMAIN calls[i].history :
                calls[i].history[k][2] = state.question

\* C13: the top_k of the turn's configuration, and the one the agent prompt
\* was formatted with, is the number given after --topk, and 10 without it.
C13_TopkIsTheNumberGiven ==
    InTurn =>
        LET n == IF argv.topk = Absent THEN "10" ELSE argv.topk
        IN  /\ state.config.top_k = n
            /\ ARGS.topk = n

\* C14: a turn takes the agent branch exactly when the value given after
\* --advanced denotes true; "False", or no --advanced, takes _build_query.
C14_AdvancedDenotesTruth ==
    InTurn =>
        /\ state.config.advanced <=> (argv.advanced = "True")
        /\ ran # <<>> =>
              ran[1] = IF argv.advanced = "True" THEN "_search_db"
                                                ELSE "_build_query"

\* C15: a simple-path step function applied to a state whose config.advanced
\* is true makes no call, raises nothing and leaves every key of the state as
\* it was.
C15_StepsPassAdvancedThrough ==
    [][(pc = "running" /\ state.config.advanced) =>
          /\ state' = state
          /\ calls' = calls
          /\ error' = ""
          /\ pc' = "running"]_vars

C15_Witness ==
    /\ state.config.advanced
    /\ state.db_query # Unset
    /\ state.db_result # Unset
    /\ ran = <<"_build_query", "_execute_query", "_build_answer">>
    /\ calls = <<>>
    /\ state = atStart

\* What a call that does not return leaves in error.
ExternalErrors == {"model", "db", "agent"}

\* C16: a turn that has begun returns its answer to the loop, which then
\* waits for the next question, unless one of its external calls raises.
C16_TurnTerminates ==
    (pc = "running") ~> (pc = "input" \/ error \in ExternalErrors)

C16_Witness ==
    /\ TurnDone
    /\ turn = 2
    /\ ran = <<"_search_db", "_retrive_docs", "_generate_from_context",
               "_merge_smart">>
    /\ printed = mergeOut

\* C17: whenever _merge_smart is scheduled or has been invoked, db_response
\* and rag_response were both written by nodes of this turn, by the last step
\* of the taken branch and by _generate_from_context, invoked before it.
C17_MergeReadsThisTurn ==
    (InTurn /\ "_merge_smart" \in pending \cup triggered \cup Range(ran)) =>
        /\ {"db_response", "rag_response"} \subseteq written
        /\ state.db_response # Unset
        /\ state.rag_response # Unset
        /\ BranchEnd \in Range(ran)
        /\ "_generate_from_context" \in Range(ran)
        /\ \A j \in At("_merge_smart") :
              \A n \in {BranchEnd, "_generate_from_context"} :
                  \A i \in At(n) : i < j

C17_Witness ==
    /\ pc = "running"
    /\ turn = 2
    /\ pending = {"_merge_smart"}
    /\ atStart.rag_response # Unset
    /\ state.rag_response # atStart.rag_response
    /\ state.db_response # atStart.db_response

\* The nodes of the path the configuration selects, in order.
TakenPath ==
    IF state.config.advanced
      THEN <<"_search_db", "_retrive_docs", "_generate_from_context",
             "_merge_smart">>
      ELSE <<"_build_query", "_execute_query", "_build_answer",
             "_retrive_docs", "_generate_from_context", "_merge_smart">>

\* C18: no node is invoked twice in a turn, and a turn that ends has invoked
\* exactly the nodes of the taken path, each once, and no other node.
C18_EachStepOnce ==
    InTurn =>
        /\ \A i, j \in DOMAIN ran : ran[i] = ran[j] => i = j
        /\ pc = "input" => ran = TakenPath

C18_Witness ==
    /\ TurnDone
    /\ turn = 2
    /\ ~state.config.advanced
    /\ Len(ran) = 6
    /\ Cardinality(At("_retrive_docs")) = 1

\* The nodes that build a history text.
HistorySteps == {"_build_query", "_retrive_docs", "_merge_smart"}

C9_Witness ==
    /\ pc = "running"
    /\ turn = 2
    /\ ran = <<>>
    /\ pending = {"_search_db"}
    /\ state.config.advanced

====
